---- MODULE Spec2Model ----
(***************************************************************************)
(* Court booking client (React contexts and pages) of DubRally, together   *)
(* with the event backend it talks to over HTTP.                           *)
(*                                                                         *)
(* Every browser session ("client") holds its own React state: the logged  *)
(* in user (UserContext), the bookings list (BookingsContext) and the      *)
(* Schedule page state.  An async handler is a "call": it captures the     *)
(* values of the render it was invoked from (user, bookings, ...) and      *)
(* proceeds request by request; a request is first served by the backend   *)
(* ("req" -> "resp") and the handler continues when the response arrives.  *)
(*                                                                         *)
(* Instants are whole hours since the epoch in UTC; a local time is the    *)
(* instant plus the zone offset tz.                                        *)
(***************************************************************************)
EXTENDS Integers, Sequences, FiniteSets, TLC

\* ---------------------------------------------------------------- bounds
\* environment events explored (handler invocations and lost requests)
MaxOps == 3
\* range of the millisecond clock Date.now()
MaxTime == 2
\* environment events explored on the Schedule pages (clicks included)
MaxPageOps == 4

\* browser sessions, player ids, and handlers in flight at once
Clients == {1, 2}
Players == {1, 2}
CallIds == {1, 2}
NoUser == 0
Ids == 1..MaxTime
\* offset of the browsers' time zone from UTC, in hours
TimeZones == {0 - 7}
\* the days, slot labels and courts the bookings are made for
Days == {1}
UsedSlots == {<<9, "AM">>}
UsedCourts == {1, 3}

\* the Schedule page: the days of its calendar (today and tomorrow), the
\* local hour it was opened at, and the slot labels its user clicks
PageDays == {1, 2}
MountHours == {10}
PageSlots == {<<9, "AM">>, <<6, "PM">>}

VARIABLES
  now,           \* Date.now()
  tz,            \* the browsers' zone offset
  user,          \* UserContext: user.id per session, NoUser for null
  bookings,      \* BookingsContext: the bookings list per session
  events,        \* the backend's event store, by id
  calls,         \* the async handlers in flight
  last,          \* outcome of the handler that returned in the last step
  ops,           \* environment events so far
  date,          \* Schedule: selected date (an instant) per session
  selectedSlot,  \* Schedule: selected slot label or NoSlot
  selectedCourt, \* Schedule: selected court or NoCourt
  bookedSlots,   \* Schedule: Map slot label -> Set of booked courts
  gen,           \* Set objects allocated by the Schedule pages so far
  build,         \* which version of TennisRating.ts the bundle holds
  inputs,        \* the RatingInputs of the profile form
  rating,        \* the value TennisRating.calculate returned last
  first          \* the first inputs rated and what they were rated

pageVars == <<date, selectedSlot, selectedCourt, bookedSlots, gen>>
ratingVars == <<build, inputs, rating, first>>
vars == <<now, tz, user, bookings, events, calls, last, ops, date, selectedSlot,
          selectedCourt, bookedSlots, gen, build, inputs, rating, first>>

\* ------------------------------------------------- Schedule.tsx constants
timeSlots ==
  << <<6, "AM">>, <<7, "AM">>, <<8, "AM">>, <<9, "AM">>, <<10, "AM">>, <<11, "AM">>,
     <<12, "PM">>, <<1, "PM">>, <<2, "PM">>, <<3, "PM">>,
     <<4, "PM">>, <<5, "PM">>, <<6, "PM">>, <<7, "PM">>, <<8, "PM">>, <<9, "PM">> >>

courts == 1..6

\* ------------------------------------------------------ time conversions
\* local calendar day of an instant, and local midnight of a calendar day
LocalDay(t, z) == (t + z) \div 24
LocalMidnight(d, z) == d * 24 - z

\* "6:00 AM" -> 6, "12:00 PM" -> 12, "1:00 PM" -> 13
getHourFromSlot(timeSlot) ==
  LET hours == timeSlot[1]
      meridiem == timeSlot[2]
  IN  IF meridiem = "AM" /\ hours = 12 THEN 0
      ELSE IF meridiem = "PM" /\ hours # 12 THEN hours + 12
      ELSE hours

\* new Date(date).setHours(hour24, 0, 0, 0).toISOString(): local day of date,
\* local hour of the slot, written as a UTC instant
toStartISO(dt, timeSlot, z) ==
  LocalDay(dt, z) * 24 + getHourFromSlot(timeSlot) - z

\* toLocaleTimeString([], {hour: 'numeric', minute: '2-digit', hour12: true})
toLocaleTimeString(t, z) ==
  LET h == (t + z) % 24
  IN  IF h = 0 THEN <<12, "AM">>
      ELSE IF h < 12 THEN <<h, "AM">>
      ELSE IF h = 12 THEN <<12, "PM">>
      ELSE <<h - 12, "PM">>

\* UTC calendar day of an instant: toISOString().split('T')[0]
UTCDay(t) == t \div 24

\* Date.getHours(): the local hour of an instant
getHours(t, z) == (t + z) % 24

\* ------------------------------------------------------ Schedule page state
NoSlot == <<0, "">>
NoCourt == 0

\* a Map of slot label -> Set of courts.  A Set is an object: ref names it,
\* so that an add through one reference is seen through every other one
EmptyMap == [l \in {} |-> [ref |-> 0, courts |-> {}]]

\* timeSlots.find(slot => getHourFromSlot(slot) === hour)
matchingSlot(hour) ==
  LET found == {i \in 1..Len(timeSlots) : getHourFromSlot(timeSlots[i]) = hour}
  IN  IF found = {} THEN NoSlot
      ELSE timeSlots[CHOOSE i \in found : \A j \in found : i <= j]

\* the map fetchBookings builds from the events of GET /api/events: an event
\* counts for the selected date when the UTC days agree, and goes under the
\* label of its local hour
slots(allEvents, selected, z, g) ==
  LET ofDate == {i \in 1..Len(allEvents) :
                   /\ UTCDay(allEvents[i].start_time) = UTCDay(selected)
                   /\ matchingSlot(getHours(allEvents[i].start_time, z)) # NoSlot}
      label(i) == matchingSlot(getHours(allEvents[i].start_time, z))
  IN  [l \in {label(i) : i \in ofDate} |->
         [ref |-> g, courts |-> {allEvents[i].court : i \in {j \in ofDate : label(j) = l}}]]

\* set.add(court) on the Set object g under label l, as seen through map m
AddCourt(m, l, g, court) ==
  [x \in DOMAIN m |->
     IF x = l /\ m[x].ref = g THEN [m[x] EXCEPT !.courts = @ \cup {court}] ELSE m[x]]

\* new Map(m) with a new Set g under the label l it lacks
WithNewSet(m, l, g) ==
  [x \in DOMAIN m \cup {l} |-> IF x = l THEN [ref |-> g, courts |-> {}] ELSE m[x]]

\* updatedSlots of handleConfirm, from the map of the render it ran in
updatedSlots(m, l, g, court) ==
  IF l \in DOMAIN m THEN AddCourt(m, l, m[l].ref, court)
  ELSE AddCourt(WithNewSet(m, l, g), l, g, court)

\* ---------------------------------------------------------------- backend
NoEvent == [start |-> 0, court |-> 0, owner |-> NoUser, status |-> "absent", seq |-> 0]

StoredIds(ev) == {i \in Ids : ev[i].status # "absent"}

\* POST /api/events: the record is stored under the id the client sent; an
\* id already in use is refused.  The slot is not looked at.
BackendCreateEvent(ev, id, start, court) ==
  IF ev[id].status # "absent"
  THEN [events |-> ev, resp |-> "Failed"]
  ELSE [events |-> [ev EXCEPT ![id] = [start |-> start, court |-> court,
                                       owner |-> NoUser, status |-> "confirmed",
                                       seq |-> Cardinality(StoredIds(ev)) + 1]],
        resp |-> "ok"]

\* PATCH /api/events/{id}/add_player
BackendAddPlayer(ev, id, p) ==
  IF ev[id].status = "absent" THEN [events |-> ev, resp |-> "NotFound"]
  ELSE IF ev[id].owner \notin {NoUser, p} THEN [events |-> ev, resp |-> "Failed"]
  ELSE [events |-> [ev EXCEPT ![id].owner = p], resp |-> "ok"]

\* PATCH /api/events/{id}/remove_player
BackendRemovePlayer(ev, id, p) ==
  IF id \notin Ids \/ ev[id].status = "absent" THEN [events |-> ev, resp |-> "NotFound"]
  ELSE IF ev[id].owner # p THEN [events |-> ev, resp |-> "Forbidden"]
  ELSE IF ev[id].status = "canceled" THEN [events |-> ev, resp |-> "ok"]
  ELSE [events |-> [ev EXCEPT ![id].status = "canceled"], resp |-> "ok"]

EventJson(ev, i) ==
  [id |-> i, start_time |-> ev[i].start, court |-> ev[i].court, status |-> ev[i].status]

RECURSIVE InCreationOrder(_, _)
InCreationOrder(ev, S) ==
  IF S = {} THEN <<>>
  ELSE LET m == CHOOSE x \in S : \A y \in S : ev[x].seq <= ev[y].seq
       IN  <<EventJson(ev, m)>> \o InCreationOrder(ev, S \ {m})

\* GET /api/events/mine/{playerId}
BackendGetMyEvents(ev, p) ==
  InCreationOrder(ev, {i \in StoredIds(ev) : ev[i].owner = p})

\* GET /api/events
BackendGetAllEvents(ev) ==
  InCreationOrder(ev, {i \in StoredIds(ev) : ev[i].status = "confirmed"})

\* ------------------------------------------------------------ services/api
\* a fetch wrapper that does not look at res.ok
ThrowsNever(resp) == FALSE

\* if (!res.ok) throw new Error(err.detail || ...)
Throws(resp) == resp # "ok"

\* -------------------------------------------------------- BookingsContext
newBooking(eventId, data) ==
  [id |-> eventId, dateISO |-> data.startISO, timeSlot |-> data.timeSlot,
   court |-> data.court, status |-> "confirmed"]

\* setBookings([...bookings, newBooking])
AfterCreate(closure, b) == Append(closure, b)

\* a cancelBooking that leaves the list as it was
AfterCancelKeepsAll(closure, id) == closure

\* setBookings(bookings.filter(b => b.id !== id))
AfterCancel(closure, id) ==
  LET Keep(b) == b.id # id IN SelectSeq(closure, Keep)

\* events.map(ev => ({id, dateISO, timeSlot, court, status: 'confirmed'}))
MapEvents(body, z) ==
  [i \in 1..Len(body) |->
     [id |-> body[i].id, dateISO |-> body[i].start_time,
      timeSlot |-> toLocaleTimeString(body[i].start_time, z),
      court |-> body[i].court, status |-> "confirmed"]]

\* ------------------------------------------------------------------ calls
\* a confirmed event (joined or not yet) holds the slot of the data
Occupied(data) ==
  \E i \in Ids : /\ events[i].status = "confirmed"
                 /\ events[i].start = data.startISO
                 /\ events[i].court = data.court

\* the slot of the data was booked and has been released by a cancel
Released(data) ==
  /\ ~Occupied(data)
  /\ \E i \in Ids : /\ events[i].status = "canceled"
                    /\ events[i].start = data.startISO
                    /\ events[i].court = data.court

Idle == [kind |-> "idle"]
\* what the handler that returned (or threw) in the last step came to: its
\* result, whether it stored an event, and the status the backend found the
\* addressed event in
NoOutcome == [kind |-> "none", client |-> 0, uid |-> NoUser, id |-> 0,
              result |-> "none", created |-> FALSE, seen |-> "none"]

Outcome(kind, c, uid, id, result) ==
  [kind |-> kind, client |-> c, uid |-> uid, id |-> id, result |-> result,
   created |-> FALSE, seen |-> "none"]

\* a rejected promise carries the error, a resolved one the value
Result(resp) == IF Throws(resp) THEN resp ELSE "ok"

OutcomeOf(call) ==
  [kind |-> call.kind, client |-> call.client, uid |-> call.uid, id |-> call.id,
   result |-> Result(call.resp), created |-> call.created, seen |-> call.seen]

Busy(k) == calls[k].kind # "idle"
FreeCall(k) == ~Busy(k) /\ \A j \in CallIds : j < k => Busy(j)

\* what a handler of the Schedule page captures from its render
NoPage == [via |-> "context", date |-> 0, slot |-> NoSlot, court |-> NoCourt,
           booked |-> EmptyMap]

NewCall(kind, c, api, id, data) ==
  [kind |-> kind, client |-> c, uid |-> user[c], closure |-> bookings[c],
   id |-> id, data |-> data, api |-> api, phase |-> "req", resp |-> "none",
   body |-> <<>>, created |-> FALSE, seen |-> "none", retry |-> Released(data),
   page |-> NoPage]

NoData == [startISO |-> 0, timeSlot |-> <<0, "">>, court |-> 0]

\* ------------------------------------------------------------ TennisRating
\* TennisRating.ts holds two versions of the class.  A utr is held in
\* hundredths (1.00 -> 100); a score or rating v is held exactly, as the
\* integer v * Unit, where Unit is large enough for every quotient the code
\* forms to be whole.
MAX_YEARS == 14
UTR_MAX == 1650
SKILL_MULTIPLIER == 5
SKILL_ADDER == 3
EXPERIENCE_MULTIPLIER == 2
COMPETITION_BONUS == 10

Unit == 20 * UTR_MAX
\* one hundredth of a rating point, and the weight 1
Cent == Unit \div 100
Whole == 1000

\* inputs.utr === undefined
NoUtr == 0

Min(a, b) == IF a <= b THEN a ELSE b

calculateBaseScore(skillLevel) == (skillLevel * SKILL_MULTIPLIER) + SKILL_ADDER

\* an experience bonus that forgets the cap of MAX_YEARS
calculateExperienceBonusUncapped(years) == years * EXPERIENCE_MULTIPLIER

calculateExperienceBonus(years) == Min(years, MAX_YEARS) * EXPERIENCE_MULTIPLIER

\* a competition bonus that is granted only while nothing has been rated
calculateCompetitionBonusOnce(hasCompetitive) ==
  IF hasCompetitive /\ rating < 0 THEN COMPETITION_BONUS ELSE 0

calculateCompetitionBonus(hasCompetitive) == IF hasCompetitive THEN COMPETITION_BONUS ELSE 0

compositeScore(in) ==
  calculateBaseScore(in.skillLevel) + calculateExperienceBonus(in.yearsPlayed)
    + calculateCompetitionBonus(in.hasCompExperience)

\* (utr / UTR_MAX) * 100
utrScore(utr) == utr * ((100 * Unit) \div UTR_MAX)

\* weights whose composite part has its sign flipped
getWeightsSignFlipped(utr) ==
  IF utr >= 1000 THEN [utr |-> Whole, composite |-> 0]
  ELSE LET utrWeight == Min(utr, Whole)
       IN  [utr |-> utrWeight, composite |-> utrWeight - Whole]

\* weights in thousandths: utr / 10 of a utr in hundredths
getWeights(utr) ==
  IF utr >= 1000 THEN [utr |-> Whole, composite |-> 0]
  ELSE LET utrWeight == Min(utr, Whole)
       IN  [utr |-> utrWeight, composite |-> Whole - utrWeight]

calculateWithUTR(utr, composite) ==
  IF utr >= 1000 THEN Min(utrScore(utr), 100 * Unit)
  ELSE LET weights == getWeights(utr)
           blend == (utrScore(utr) \div Whole) * weights.utr
                      + composite * (Unit \div Whole) * weights.composite
       IN  Min(blend, 95 * Unit)

\* The blends that are an exact half of a hundredth, <<utr, composite>>, whose
\* IEEE-754 double (the operations of calculateWithUTR in their order) lies
\* just below the half; the doubles of the other exact halves lie on or above.
JustBelowHalf ==
  {}
  \cup {<<165, c>> : c \in {15, 19, 21, 23, 25, 27, 29, 31, 33, 35, 39, 41, 43, 45, 47, 49, 51}}
  \cup {<<231, c>> : c \in {49}}
  \cup {<<363, c>> : c \in {37, 47}}
  \cup {<<429, c>> : c \in {21, 31, 41, 51}}
  \cup {<<495, c>> : c \in {13, 21, 23, 27, 29, 31, 35, 37, 41, 43, 49, 51}}
  \cup {<<561, c>> : c \in {19, 29, 49}}
  \cup {<<627, c>> : c \in {13, 33, 43}}
  \cup {<<693, c>> : c \in {27, 47}}
  \cup {<<759, c>> : c \in {51}}
  \cup {<<825, c>> : c \in {13, 21, 23, 33}}

\* Number(x.toFixed(2)) of the double standing for x
toFixed2(x, below) ==
  LET q == x \div Cent
      r == x % Cent
  IN  IF 2 * r > Cent \/ (2 * r = Cent /\ ~below) THEN (q + 1) * Cent ELSE q * Cent

\* version 1 of calculate (rounds its result)
calculate(in) ==
  LET finalRating == IF in.utr = NoUtr THEN Min(compositeScore(in) * Unit, 70 * Unit)
                     ELSE calculateWithUTR(in.utr, compositeScore(in))
  IN  toFixed2(finalRating, <<in.utr, compositeScore(in)>> \in JustBelowHalf)

\* version 2: stepped weights, no rounding
getWeights_2(utr) ==
  IF utr >= 400 THEN [utr |-> Whole \div 2, composite |-> Whole \div 2]
  ELSE [utr |-> Whole \div 5, composite |-> 4 * (Whole \div 5)]

calculateWithUTR_2(utr, composite) ==
  IF utr >= 1000 THEN Min(utrScore(utr), 100 * Unit)
  ELSE LET weights == getWeights_2(utr)
           blend == (utrScore(utr) \div Whole) * weights.utr
                      + composite * (Unit \div Whole) * weights.composite
       IN  Min(blend, 95 * Unit)

calculate_2(in) ==
  IF in.utr = NoUtr THEN Min(compositeScore(in) * Unit, 70 * Unit)
  ELSE calculateWithUTR_2(in.utr, compositeScore(in))

\* the bundle holds one of the two versions; which one is settled when the
\* class is first used
NoBuild == 0
Builds == {1, 2}
calculateBuilt(b, in) == IF b = 1 THEN calculate(in) ELSE calculate_2(in)

NotRated == 0 - 1
NoFirst == [inputs |-> <<>>, rating |-> NotRated, between |-> FALSE, again |-> FALSE]

RatingInputs(utr, skillLevel, yearsPlayed, hasCompExperience) ==
  [utr |-> utr, skillLevel |-> skillLevel, yearsPlayed |-> yearsPlayed,
   hasCompExperience |-> hasCompExperience]

\* the inputs computeRatingFromForm builds from an empty form
BlankForm == RatingInputs(NoUtr, 1, 0, FALSE)

\* pre-validated inputs: every utr in hundredths, years around the cap
YearsPlayed == {0, 1, 13, 14, 15, 20}
AllInputs ==
  {RatingInputs(u, s, y, h) : u \in {NoUtr} \cup 100..UTR_MAX, s \in 1..3,
                              y \in YearsPlayed, h \in BOOLEAN}

\* the forms edited in the runs that interleave rating with the sessions
SampleInputs ==
  {BlankForm, RatingInputs(NoUtr, 3, 20, TRUE), RatingInputs(1200, 2, 1, FALSE),
   RatingInputs(165, 2, 1, FALSE), RatingInputs(450, 3, 14, TRUE)}

\* the day the pages are opened on: useState(new Date())
Today == CHOOSE d \in PageDays : \A e \in PageDays : d <= e

\* the sessions start logged in, client c as player c
InitialUser(c) == IF c \in Players THEN c ELSE NoUser

InitApp ==
  /\ now = 1
  /\ tz \in TimeZones
  /\ user = [c \in Clients |-> InitialUser(c)]
  /\ bookings = [c \in Clients |-> <<>>]
  /\ events = [i \in Ids |-> NoEvent]
  /\ calls = [k \in CallIds |-> Idle]
  /\ last = NoOutcome
  /\ ops = 0
  /\ \E h \in MountHours : date = [c \in Clients |-> LocalMidnight(Today, tz) + h]
  /\ selectedSlot = [c \in Clients |-> NoSlot]
  /\ selectedCourt = [c \in Clients |-> NoCourt]
  /\ bookedSlots = [c \in Clients |-> EmptyMap]
  /\ gen = 0
  /\ build = NoBuild
  /\ rating = NotRated
  /\ first = NoFirst

\* the profile form starts blank
Init == InitApp /\ inputs = BlankForm

\* an event of the environment: the user invokes a handler, or a request is
\* lost (MaxOps of them are explored)
Invoke ==
  /\ ops < MaxOps
  /\ ops' = ops + 1

\* an event of the environment on a Schedule page: a click
Click ==
  /\ ops < MaxPageOps
  /\ ops' = ops + 1

\* Date.now() advances
Tick ==
  /\ now < MaxTime
  /\ now' = now + 1
  /\ last' = NoOutcome
  /\ UNCHANGED <<ratingVars, tz, user, bookings, events, calls, ops, pageVars>>

\* setUser(player) after a successful login
Login(c, p) ==
  /\ Invoke
  /\ user[c] # p
  /\ user' = [user EXCEPT ![c] = p]
  /\ last' = NoOutcome
  /\ UNCHANGED <<ratingVars, now, tz, bookings, events, calls, pageVars>>

Logout(c) ==
  /\ Invoke
  /\ user[c] # NoUser
  /\ user' = [user EXCEPT ![c] = NoUser]
  /\ last' = NoOutcome
  /\ UNCHANGED <<ratingVars, now, tz, bookings, events, calls, pageVars>>

\* a createBooking without the check of user?.id
CreateBookingUnguarded(c, data) ==
  /\ Invoke
  /\ \E k \in CallIds :
       /\ FreeCall(k)
       /\ calls' = [calls EXCEPT ![k] = NewCall("create", c, "createEvent", now, data)]
       /\ last' = NoOutcome
  /\ UNCHANGED <<ratingVars, now, tz, user, bookings, events, pageVars>>

\* createBooking up to its first await
CreateBooking(c, data) ==
  /\ Invoke
  /\ IF user[c] = NoUser
     THEN /\ last' = Outcome("create", c, NoUser, 0, "MustBeLoggedIn")
          /\ UNCHANGED calls
     ELSE \E k \in CallIds :
            /\ FreeCall(k)
            /\ calls' = [calls EXCEPT ![k] = NewCall("create", c, "createEvent", now, data)]
            /\ last' = NoOutcome
  /\ UNCHANGED <<ratingVars, now, tz, user, bookings, events, pageVars>>

\* cancelBooking up to its await
CancelBooking(c, id) ==
  /\ Invoke
  /\ IF user[c] = NoUser
     THEN /\ last' = Outcome("cancel", c, NoUser, id, "MustBeLoggedIn")
          /\ UNCHANGED calls
     ELSE \E k \in CallIds :
            /\ FreeCall(k)
            /\ calls' = [calls EXCEPT ![k] = NewCall("cancel", c, "removePlayer", id, NoData)]
            /\ last' = NoOutcome
  /\ UNCHANGED <<ratingVars, now, tz, user, bookings, events, pageVars>>

\* loadMine up to its await
LoadMine(c) ==
  /\ Invoke
  /\ IF user[c] = NoUser
     THEN /\ last' = Outcome("loadMine", c, NoUser, 0, "ok")
          /\ UNCHANGED calls
     ELSE \E k \in CallIds :
            /\ FreeCall(k)
            /\ calls' = [calls EXCEPT ![k] = NewCall("loadMine", c, "getMyEvents", 0, NoData)]
            /\ last' = NoOutcome
  /\ UNCHANGED <<ratingVars, now, tz, user, bookings, events, pageVars>>

\* the backend serves a request
Served(call) ==
  CASE call.api = "createEvent" ->
         LET r == BackendCreateEvent(events, call.id, call.data.startISO, call.data.court)
         IN  [events |-> r.events,
              call |-> [call EXCEPT !.phase = "resp", !.resp = r.resp,
                                    !.created = (r.resp = "ok")]]
    [] call.api = "addPlayer" ->
         LET r == BackendAddPlayer(events, call.id, call.uid)
         IN  [events |-> r.events, call |-> [call EXCEPT !.phase = "resp", !.resp = r.resp]]
    [] call.api = "removePlayer" ->
         LET r == BackendRemovePlayer(events, call.id, call.uid)
         IN  [events |-> r.events,
              call |-> [call EXCEPT !.phase = "resp", !.resp = r.resp,
                                    !.seen = events[call.id].status]]
    [] call.api = "getMyEvents" ->
         [events |-> events,
          call |-> [call EXCEPT !.phase = "resp", !.resp = "ok",
                                !.body = BackendGetMyEvents(events, call.uid)]]
    [] call.api = "getAllEvents" ->
         [events |-> events,
          call |-> [call EXCEPT !.phase = "resp", !.resp = "ok",
                                !.body = BackendGetAllEvents(events)]]

Serve(k) ==
  /\ Busy(k)
  /\ calls[k].phase = "req"
  /\ LET r == Served(calls[k])
     IN  /\ events' = r.events
         /\ calls' = [calls EXCEPT ![k] = r.call]
  /\ last' = NoOutcome
  /\ UNCHANGED <<ratingVars, now, tz, user, bookings, ops, pageVars>>

\* the request is lost or times out before the backend applies it
Fault(k) ==
  /\ Invoke
  /\ Busy(k)
  /\ calls[k].phase = "req"
  /\ calls' = [calls EXCEPT ![k].phase = "resp", ![k].resp = "Fault"]
  /\ last' = NoOutcome
  /\ UNCHANGED <<ratingVars, now, tz, user, bookings, events, pageVars>>

Responded(k, api) ==
  /\ Busy(k)
  /\ calls[k].phase = "resp"
  /\ calls[k].api = api

\* createBooking after await api.createEvent
CreateEventReturns(k) ==
  /\ Responded(k, "createEvent")
  /\ IF Throws(calls[k].resp)
     THEN /\ calls' = [calls EXCEPT ![k] = Idle]
          /\ last' = OutcomeOf(calls[k])
     ELSE /\ calls' = [calls EXCEPT ![k].api = "addPlayer", ![k].phase = "req",
                                    ![k].resp = "none"]
          /\ last' = NoOutcome
  /\ UNCHANGED <<ratingVars, now, tz, user, bookings, events, ops, pageVars>>

\* the add of handleConfirm reaches every map of the session that holds the
\* same Set object: the page state and the maps captured by handlers in flight
SeenThrough(m, call) ==
  IF call.page.slot \in DOMAIN call.page.booked
  THEN AddCourt(m, call.page.slot, call.page.booked[call.page.slot].ref, call.page.court)
  ELSE m

Aliased(other, call) ==
  IF other.kind = "idle" \/ other.client # call.client THEN other
  ELSE [other EXCEPT !.page.booked = SeenThrough(@, call)]

\* createBooking after await api.addPlayerToEvent, and handleConfirm after
\* await createBooking when the page invoked it
AddPlayerReturns(k) ==
  /\ Responded(k, "addPlayer")
  /\ LET call == calls[k]
         c == call.client
     IN  IF Throws(call.resp)
         THEN /\ calls' = [calls EXCEPT ![k] = Idle]
              /\ UNCHANGED <<bookings, pageVars>>
         ELSE /\ bookings' = [bookings EXCEPT ![c] =
                                 AfterCreate(call.closure, newBooking(call.id, call.data))]
              /\ IF call.page.via = "page"
                 THEN /\ bookedSlots' = [bookedSlots EXCEPT ![c] =
                            updatedSlots(call.page.booked, call.page.slot, gen + 1,
                                         call.page.court)]
                      /\ gen' = IF call.page.slot \in DOMAIN call.page.booked
                                THEN gen ELSE gen + 1
                      /\ selectedSlot' = [selectedSlot EXCEPT ![c] = NoSlot]
                      /\ selectedCourt' = [selectedCourt EXCEPT ![c] = NoCourt]
                      /\ calls' = [j \in CallIds |->
                                     IF j = k THEN Idle ELSE Aliased(calls[j], call)]
                      /\ UNCHANGED date
                 ELSE /\ calls' = [calls EXCEPT ![k] = Idle]
                      /\ UNCHANGED pageVars
  /\ last' = OutcomeOf(calls[k])
  /\ UNCHANGED <<ratingVars, now, tz, user, events, ops>>

\* a cancelBooking that updates the list before it looks at the response
RemovePlayerReturnsEagerly(k) ==
  /\ Responded(k, "removePlayer")
  /\ bookings' = [bookings EXCEPT ![calls[k].client] =
                     AfterCancel(calls[k].closure, calls[k].id)]
  /\ last' = OutcomeOf(calls[k])
  /\ calls' = [calls EXCEPT ![k] = Idle]
  /\ UNCHANGED <<ratingVars, now, tz, user, events, ops, pageVars>>

\* cancelBooking after await api.removePlayerFromEvent
RemovePlayerReturns(k) ==
  /\ Responded(k, "removePlayer")
  /\ LET call == calls[k]
     IN  IF Throws(call.resp)
         THEN UNCHANGED bookings
         ELSE bookings' = [bookings EXCEPT ![call.client] =
                                AfterCancel(call.closure, call.id)]
  /\ last' = OutcomeOf(calls[k])
  /\ calls' = [calls EXCEPT ![k] = Idle]
  /\ UNCHANGED <<ratingVars, now, tz, user, events, ops, pageVars>>

\* loadMine after await api.getMyEvents
GetMyEventsReturns(k) ==
  /\ Responded(k, "getMyEvents")
  /\ LET call == calls[k]
     IN  IF Throws(call.resp)
         THEN UNCHANGED bookings
         ELSE bookings' = [bookings EXCEPT ![call.client] = MapEvents(call.body, tz)]
  /\ last' = OutcomeOf(calls[k])
  /\ calls' = [calls EXCEPT ![k] = Idle]
  /\ UNCHANGED <<ratingVars, now, tz, user, events, ops, pageVars>>

\* fetchBookings after await api.getAllEvents
GetAllEventsReturns(k) ==
  /\ Responded(k, "getAllEvents")
  /\ LET call == calls[k]
     IN  IF Throws(call.resp)
         THEN UNCHANGED <<bookedSlots, gen>>
         ELSE /\ bookedSlots' = [bookedSlots EXCEPT ![call.client] =
                                   slots(call.body, call.page.date, tz, gen + 1)]
              /\ gen' = gen + 1
  /\ last' = OutcomeOf(calls[k])
  /\ calls' = [calls EXCEPT ![k] = Idle]
  /\ UNCHANGED <<ratingVars, now, tz, user, bookings, events, ops, date, selectedSlot, selectedCourt>>

\* ------------------------------------------------------------ Schedule page
getDisabledSlots(c) ==
  {l \in DOMAIN bookedSlots[c] : Cardinality(bookedSlots[c][l].courts) = 6}

getDisabledCourts(c) ==
  IF selectedSlot[c] = NoSlot \/ selectedSlot[c] \notin DOMAIN bookedSlots[c] THEN {}
  ELSE bookedSlots[c][selectedSlot[c]].courts

canConfirm(c) ==
  user[c] # NoUser /\ selectedSlot[c] # NoSlot /\ selectedCourt[c] # NoCourt

\* the calendar hands over the local midnight of the day clicked; the effect
\* on [date] then runs fetchBookings up to its await
handleDateChange(c, d) ==
  /\ Click
  /\ date' = [date EXCEPT ![c] = LocalMidnight(d, tz)]
  /\ selectedSlot' = [selectedSlot EXCEPT ![c] = NoSlot]
  /\ selectedCourt' = [selectedCourt EXCEPT ![c] = NoCourt]
  /\ \E k \in CallIds :
       /\ FreeCall(k)
       /\ calls' = [calls EXCEPT ![k] =
                      [NewCall("fetch", c, "getAllEvents", 0, NoData) EXCEPT
                         !.page = [NoPage EXCEPT !.via = "page", !.date = date'[c]]]]
  /\ last' = NoOutcome
  /\ UNCHANGED <<ratingVars, now, tz, user, bookings, events, bookedSlots, gen>>

\* a click on a slot button that is not disabled: toggle, reset the court
handleTimeSelect(c, slot) ==
  /\ Click
  /\ slot \notin getDisabledSlots(c)
  /\ selectedSlot' = [selectedSlot EXCEPT ![c] = IF @ = slot THEN NoSlot ELSE slot]
  /\ selectedCourt' = [selectedCourt EXCEPT ![c] = NoCourt]
  /\ last' = NoOutcome
  /\ UNCHANGED <<ratingVars, now, tz, user, bookings, events, calls, date, bookedSlots, gen>>

\* a click on a court button that is not disabled: toggle
handleCourtSelect(c, court) ==
  /\ Click
  /\ court \notin getDisabledCourts(c)
  /\ selectedCourt' = [selectedCourt EXCEPT ![c] = IF @ = court THEN NoCourt ELSE court]
  /\ last' = NoOutcome
  /\ UNCHANGED <<ratingVars, now, tz, user, bookings, events, calls, date, selectedSlot,
                 bookedSlots, gen>>

\* handleConfirm up to the first await of the createBooking it calls
handleConfirm(c) ==
  /\ Click
  /\ canConfirm(c)
  /\ \E k \in CallIds :
       /\ FreeCall(k)
       /\ calls' = [calls EXCEPT ![k] =
                      [NewCall("create", c, "createEvent", now,
                               [startISO |-> toStartISO(date[c], selectedSlot[c], tz),
                                timeSlot |-> selectedSlot[c], court |-> selectedCourt[c]])
                       EXCEPT !.page = [via |-> "page", date |-> date[c],
                                        slot |-> selectedSlot[c],
                                        court |-> selectedCourt[c],
                                        booked |-> bookedSlots[c]]]]
  /\ last' = NoOutcome
  /\ UNCHANGED <<ratingVars, now, tz, user, bookings, events, pageVars>>

\* the data handleConfirm passes for a day, a slot label and a court
BookingData(d, slot, court) ==
  [startISO |-> toStartISO(LocalMidnight(d, tz), slot, tz), timeSlot |-> slot,
   court |-> court]

\* the contexts and the backend: the handlers are invoked with the data the
\* page would pass
Next ==
  \/ Tick
  \/ \E c \in Clients, p \in Players : Login(c, p)
  \/ \E c \in Clients : Logout(c)
  \/ \E c \in Clients, d \in Days, s \in UsedSlots, ct \in UsedCourts :
       CreateBooking(c, BookingData(d, s, ct))
  \/ \E c \in Clients, id \in Ids : CancelBooking(c, id)
  \/ \E c \in Clients : LoadMine(c)
  \/ \E k \in CallIds : Serve(k)
  \/ \E k \in CallIds : Fault(k)
  \/ \E k \in CallIds : CreateEventReturns(k)
  \/ \E k \in CallIds : AddPlayerReturns(k)
  \/ \E k \in CallIds : RemovePlayerReturns(k)
  \/ \E k \in CallIds : GetMyEventsReturns(k)

Spec == Init /\ [][Next]_vars

\* the Schedule pages of the sessions and the backend
NextSchedule ==
  \/ Tick
  \/ \E c \in Clients, d \in PageDays : handleDateChange(c, d)
  \/ \E c \in Clients, s \in PageSlots : handleTimeSelect(c, s)
  \/ \E c \in Clients, ct \in UsedCourts : handleCourtSelect(c, ct)
  \/ \E c \in Clients : handleConfirm(c)
  \/ \E k \in CallIds : Serve(k)
  \/ \E k \in CallIds : Fault(k)
  \/ \E k \in CallIds : CreateEventReturns(k)
  \/ \E k \in CallIds : AddPlayerReturns(k)
  \/ \E k \in CallIds : GetAllEventsReturns(k)

SpecSchedule == Init /\ [][NextSchedule]_vars

\* the Schedule pages opened on a store that already holds a booking: after
\* the pages were mounted, the second session booked court 1 at 9:00 AM of
\* today through its context
Seeder == CHOOSE c \in Clients : \A d \in Clients : d <= c
SeedId == 1

SeedData == BookingData(Today, <<9, "AM">>, 1)

InitBooked ==
  /\ now = SeedId
  /\ tz \in TimeZones
  /\ user = [c \in Clients |-> InitialUser(c)]
  /\ bookings = [c \in Clients |->
                   IF c = Seeder THEN AfterCreate(<<>>, newBooking(SeedId, SeedData)) ELSE <<>>]
  /\ LET created == BackendCreateEvent([i \in Ids |-> NoEvent], SeedId,
                                       SeedData.startISO, SeedData.court).events
     IN  events = BackendAddPlayer(created, SeedId, InitialUser(Seeder)).events
  /\ calls = [k \in CallIds |-> Idle]
  /\ last = NoOutcome
  /\ ops = 0
  /\ \E h \in MountHours : date = [c \in Clients |-> LocalMidnight(Today, tz) + h]
  /\ selectedSlot = [c \in Clients |-> NoSlot]
  /\ selectedCourt = [c \in Clients |-> NoCourt]
  /\ bookedSlots = [c \in Clients |-> EmptyMap]
  /\ gen = 0
  /\ build = NoBuild
  /\ inputs = BlankForm
  /\ rating = NotRated
  /\ first = NoFirst

SpecBooked == InitBooked /\ [][NextSchedule]_vars

\* createBooking as a function of its argument: callers other than the page
\* may pass any day, slot label and court
AnyDays == {Today - 1, Today}
AnySlots == {<<5, "AM">>, <<9, "AM">>}
AnyCourts == {1, 7}

NextCreate ==
  \/ Tick
  \/ \E c \in Clients, d \in AnyDays, s \in AnySlots, ct \in AnyCourts :
       CreateBooking(c, BookingData(d, s, ct))
  \/ \E k \in CallIds : Serve(k)
  \/ \E k \in CallIds : Fault(k)
  \/ \E k \in CallIds : CreateEventReturns(k)
  \/ \E k \in CallIds : AddPlayerReturns(k)

SpecCreate == Init /\ [][NextCreate]_vars

\* ----------------------------------------------------- slot encoding runs
\* the zone offsets in whole hours, and the hours of a selected date: the
\* calendar hands over midnight, the mounted page holds the hour it opened at
AllZones == (0 - 12)..14
DateHours == {0} \cup MountHours

\* fetchBookings answered with the one event handleConfirm would store for
\* the page's date, slot and court
ownEvent(c) ==
  [id |-> SeedId, start_time |-> toStartISO(date[c], selectedSlot[c], tz),
   court |-> selectedCourt[c], status |-> "confirmed"]

roundTrip(c) ==
  /\ Invoke
  /\ bookedSlots' = [bookedSlots EXCEPT ![c] = slots(<<ownEvent(c)>>, date[c], tz, gen + 1)]
  /\ gen' = gen + 1
  /\ last' = Outcome("fetch", c, user[c], 0, "ok")
  /\ UNCHANGED <<ratingVars, now, tz, user, bookings, events, calls, date, selectedSlot,
                 selectedCourt>>

InitRoundTrip ==
  /\ now = 1
  /\ tz \in AllZones
  /\ user = [c \in Clients |-> InitialUser(c)]
  /\ bookings = [c \in Clients |-> <<>>]
  /\ events = [i \in Ids |-> NoEvent]
  /\ calls = [k \in CallIds |-> Idle]
  /\ last = NoOutcome
  /\ ops = 0
  /\ \E d \in PageDays, h \in DateHours :
       date = [c \in Clients |-> LocalMidnight(d, tz) + h]
  /\ \E l \in {timeSlots[i] : i \in 1..Len(timeSlots)} :
       selectedSlot = [c \in Clients |-> l]
  /\ \E ct \in UsedCourts : selectedCourt = [c \in Clients |-> ct]
  /\ bookedSlots = [c \in Clients |-> EmptyMap]
  /\ gen = 0
  /\ build = NoBuild
  /\ inputs = BlankForm
  /\ rating = NotRated
  /\ first = NoFirst

NextRoundTrip == \E c \in Clients : roundTrip(c)

SpecRoundTrip == InitRoundTrip /\ [][NextRoundTrip]_vars

\* ------------------------------------------------------------- rating runs
\* the form's rating fields change
editForm(f) ==
  /\ inputs # f
  /\ inputs' = f
  /\ last' = NoOutcome
  /\ UNCHANGED <<now, tz, user, bookings, events, calls, ops, pageVars, build, rating, first>>

\* computeRatingFromForm / handleSubmit: TennisRating.calculate on the inputs
computeRatingFromForm ==
  /\ Invoke
  /\ \E b \in Builds :
       /\ build \in {NoBuild, b}
       /\ build' = b
       /\ rating' = calculateBuilt(b, inputs)
  /\ first' = IF first = NoFirst
              THEN [NoFirst EXCEPT !.inputs = inputs, !.rating = rating']
              ELSE IF inputs = first.inputs THEN [first EXCEPT !.again = first.between]
              ELSE [first EXCEPT !.between = TRUE]
  /\ last' = NoOutcome
  /\ UNCHANGED <<now, tz, user, bookings, events, calls, pageVars, inputs>>

\* the rating function on every pre-validated input
InitRating == InitApp /\ inputs \in AllInputs

NextRating == computeRatingFromForm

SpecRating == InitRating /\ [][NextRating]_vars

\* rating interleaved with form edits and with the sessions' state
NextRatingCalls ==
  \/ \E f \in SampleInputs : editForm(f)
  \/ computeRatingFromForm
  \/ Tick
  \/ \E c \in Clients, p \in Players : Login(c, p)
  \/ \E c \in Clients : Logout(c)

SpecRatingCalls == Init /\ [][NextRatingCalls]_vars

\* ------------------------------------------------------------- properties
SameSlot(e, f) == e.start = f.start /\ e.court = f.court

\* a booking: a stored event that its player has joined
IsBooking(i) == events[i].status # "absent" /\ events[i].owner # NoUser
IsConfirmed(i) == IsBooking(i) /\ events[i].status = "confirmed"

BookingIds(list) == {list[i].id : i \in 1..Len(list)}

\* steps of a call: the backend serves its request; the handler returns
ServeStep(k) ==
  /\ Busy(k)
  /\ calls[k].phase = "req"
  /\ calls'[k].kind # "idle"
  /\ calls'[k].phase = "resp"
  /\ calls'[k].resp # "Fault"

ReturnStep(k) ==
  /\ Busy(k)
  /\ calls[k].phase = "resp"
  /\ calls'[k].kind = "idle"

Requesting(k, api) ==
  /\ Busy(k)
  /\ calls[k].phase = "req"
  /\ calls[k].api = api

\* C1: in every reachable state, a slot (start instant, court) holds at most
\* one confirmed booking, whatever the interleaving of the clients' calls.
C1_OneConfirmedPerSlot ==
  \A i, j \in Ids :
    (IsConfirmed(i) /\ IsConfirmed(j) /\ SameSlot(events[i], events[j])) => i = j

\* C2: of the createBooking calls made for one slot only one succeeds: a call
\* whose request is served while the slot is occupied is answered SlotConflict
\* and stores nothing.
C2_OthersGetSlotConflict ==
  [][\A k \in CallIds :
       (Requesting(k, "createEvent") /\ Occupied(calls[k].data) /\ ServeStep(k))
         => (calls'[k].resp = "SlotConflict" /\ events' = events)]_vars

\* C3: on every Schedule page with a time slot selected, each court that has
\* a confirmed booking for the selected date and slot is among the disabled
\* courts the page shows.  Only settled views are held to it: while a request
\* is in flight the page may lag behind the backend.
Settled == \A k \in CallIds : ~Busy(k)

BookedFor(c) ==
  {events[i].court : i \in {j \in Ids : /\ IsConfirmed(j)
                                        /\ events[j].start =
                                             toStartISO(date[c], selectedSlot[c], tz)}}

C3_BookedCourtsDisabled ==
  \A c \in Clients :
    (Settled /\ selectedSlot[c] # NoSlot) => BookedFor(c) \subseteq getDisabledCourts(c)

C6_FailedCreateLeavesNothing ==
  [][\A k \in CallIds :
       (Busy(k) /\ calls[k].kind = "create" /\ ReturnStep(k) /\ last'.result # "ok")
         => (~calls[k].created /\ bookings' = bookings)]_vars

Kept(old, new) ==
  \/ new.status = old.status
  \/ old.status = "confirmed" /\ new.status = "canceled"

C9_OnlyConfirmedToCanceled ==
  [][/\ \A i \in Ids :
          events[i].status # "absent"
            => (events'[i].status # "absent" /\ Kept(events[i], events'[i]))
     /\ \A c \in Clients : \A i \in 1..Len(bookings[c]) :
          \E j \in 1..Len(bookings'[c]) :
            /\ bookings'[c][j].id = bookings[c][i].id
            /\ Kept(bookings[c][i], bookings'[c][j])]_vars

\* C10: the id createBooking assigns is fresh: no stored event and no other
\* createBooking call has it.
C10_FreshIds ==
  \A k \in CallIds :
    (Busy(k) /\ calls[k].kind = "create" /\ ~calls[k].created)
      => /\ events[calls[k].id].status = "absent"
         /\ \A j \in CallIds \ {k} :
              (Busy(j) /\ calls[j].kind = "create") => calls[j].id # calls[k].id

\* C11: a createBooking call for a slot label that is not one of the 16
\* enumerated ones, or for a court outside 1..6, fails with InvalidSlot and
\* stores nothing.
EnumeratedSlots == {timeSlots[i] : i \in 1..Len(timeSlots)}

ValidSlot(data) == data.timeSlot \in EnumeratedSlots /\ data.court \in courts

C11_InvalidSlotRefused ==
  [][\A k \in CallIds :
       (Busy(k) /\ calls[k].kind = "create" /\ ~ValidSlot(calls[k].data) /\ ReturnStep(k))
         => (last'.result = "InvalidSlot" /\ ~calls[k].created)]_vars

\* C12: a createBooking call for a day before today fails with PastDate and
\* stores nothing; no stored booking is for a day before the day it was made.
PastDay(data) == LocalDay(data.startISO, tz) < Today

C12_PastDateRefused ==
  [][/\ \A k \in CallIds :
          (Busy(k) /\ calls[k].kind = "create" /\ PastDay(calls[k].data) /\ ReturnStep(k))
            => (last'.result = "PastDate" /\ ~calls[k].created)
     /\ \A i \in Ids :
          events'[i].status # "absent" => LocalDay(events'[i].start, tz) >= Today]_vars

\* C13: loadMine shows every booking its player ever made, confirmed and
\* canceled, each with the status the store holds for it, oldest first: the
\* backend answers with all of them in creation order, and the list loadMine
\* installs has the same ids in the same order with the same statuses.
MadeBy(p) == {i \in Ids : IsBooking(i) /\ events[i].owner = p}

C13_MyBookingsTrueHistory ==
  [][\A k \in CallIds :
       /\ (Requesting(k, "getMyEvents") /\ ServeStep(k))
            => LET body == calls'[k].body
               IN  /\ {body[i].id : i \in 1..Len(body)} = MadeBy(calls[k].uid)
                   /\ \A i, j \in 1..Len(body) :
                        i < j => events[body[i].id].seq < events[body[j].id].seq
       /\ (Responded(k, "getMyEvents") /\ calls[k].resp = "ok" /\ ReturnStep(k))
            => LET body == calls[k].body
                   list == bookings'[calls[k].client]
               IN  /\ Len(list) = Len(body)
                   /\ \A i \in 1..Len(body) :
                        list[i].id = body[i].id /\ list[i].status = body[i].status]_vars

\* C14: the view fetchBookings installs is the exact complement of the
\* occupancy it was answered with: for the fetched date and each of the 16
\* slot labels, the courts shown as booked are exactly the courts of the
\* confirmed events at that date and label, and a label is disabled only
\* when all six courts are booked at that date and label.
OccupiedIn(body, day, l) ==
  {body[i].court : i \in {j \in 1..Len(body) : body[j].start_time = toStartISO(day, l, tz)}}

ShownBooked(m, l) == IF l \in DOMAIN m THEN m[l].courts ELSE {}

C14_AvailabilityIsComplement ==
  [][\A k \in CallIds :
       (Responded(k, "getAllEvents") /\ calls[k].resp = "ok" /\ ReturnStep(k))
         => LET c == calls[k].client
                body == calls[k].body
                day == calls[k].page.date
            IN  /\ \A l \in EnumeratedSlots :
                     ShownBooked(bookedSlots'[c], l) = OccupiedIn(body, day, l)
                /\ \A l \in EnumeratedSlots :
                     Cardinality(ShownBooked(bookedSlots'[c], l)) = 6
                       => OccupiedIn(body, day, l) = courts]_vars

\* C15: for every pre-validated input the rating returned lies in [0, 100].
C15_RatingInRange ==
  rating # NotRated => (rating >= 0 /\ rating <= 100 * Unit)

C15_Witness ==
  /\ rating = 100 * Unit
  /\ inputs.utr = UTR_MAX

\* C16: without an external rating the result is
\* min(skillTier*5 + 3 + min(yearsPlayed,14)*2 + (competitive ? 10 : 0), 70);
\* rate(3, 20, true, none) is 56.
CompositeOfSpec(in) ==
  in.skillLevel * 5 + 3 + Min(in.yearsPlayed, 14) * 2
    + (IF in.hasCompExperience THEN 10 ELSE 0)

C16_NoExternalRating ==
  (rating # NotRated /\ inputs.utr = NoUtr) => rating = Min(CompositeOfSpec(inputs), 70) * Unit

C16_Witness ==
  /\ inputs = RatingInputs(NoUtr, 3, 20, TRUE)
  /\ rating = 56 * Unit

\* the spec's scaled external rating, externalRating / 16.5 * 100, and the
\* nearest hundredths of an exact value (two of them at an exact half)
ScaledOfSpec(utr) == utr * 2000

NearestCents(x) == {v \in {(x \div Cent) * Cent, (x \div Cent) * Cent + Cent} :
                      2 * (IF v >= x THEN v - x ELSE x - v) <= Cent}

\* C17: with an external rating of 10 or more the result is
\* min(externalRating/16.5*100, 100) rounded to two decimals, whatever the
\* other inputs; 12.00 gives 72.73.
C17_HighExternalRating ==
  (rating # NotRated /\ inputs.utr >= 1000)
    => rating \in NearestCents(Min(ScaledOfSpec(inputs.utr), 100 * Unit))

\* C18: with an external rating below 10 the result is
\* min(scaled*w + composite*(1-w), 95) with w = min(externalRating/10, 1),
\* to the hundredth.
BlendOfSpec(in) ==
  LET w == Min(in.utr, 1000)
  IN  Min(2 * in.utr * w + CompositeOfSpec(in) * 33 * (1000 - w), 95 * Unit)

C18_LowExternalRatingBlend ==
  (rating # NotRated /\ inputs.utr # NoUtr /\ inputs.utr < 1000)
    => rating \in NearestCents(BlendOfSpec(inputs))

\* C19: every rating returned has two decimal places: it is a whole number
\* of hundredths.
C19_TwoDecimals ==
  rating # NotRated => rating % Cent = 0

SlotsOf(body) == {<<body[i].start_time, body[i].court>> : i \in 1..Len(body)}

ConfirmedSlots(ev) ==
  {<<ev[i].start, ev[i].court>> : i \in {j \in Ids : ev[j].status = "confirmed"}}

C21_AtomicSnapshot ==
  [][\A k \in CallIds :
       /\ (Requesting(k, "getAllEvents") /\ ServeStep(k))
            => SlotsOf(calls'[k].body) = ConfirmedSlots(events)
       /\ (Responded(k, "getAllEvents") /\ calls[k].resp = "ok" /\ ReturnStep(k))
            => \A l \in EnumeratedSlots :
                 OccupiedIn(calls[k].body, calls[k].page.date, l)
                   \subseteq ShownBooked(bookedSlots'[calls[k].client], l)]_vars

\* C22: the occupancy a Schedule page shows for its date is what replaying
\* the confirmed bookings of the store yields: once no request is in flight,
\* a court is marked booked at a slot label if and only if the store holds a
\* confirmed booking for that date, label and court.
Replayed(c, l) ==
  {events[i].court : i \in {j \in Ids : /\ IsConfirmed(j)
                                        /\ events[j].start = toStartISO(date[c], l, tz)}}

C22_ViewIsReplayOfStore ==
  \A c \in Clients :
    Settled => \A l \in EnumeratedSlots : ShownBooked(bookedSlots[c], l) = Replayed(c, l)

\* C23: no completed update of a session's bookings list is lost: when a
\* createBooking, cancelBooking or loadMine call of the session returns, every
\* confirmed booking of the caller that the list held is still in it, and a
\* createBooking or cancelBooking brings no canceled booking back into it.
C23_NoLostUpdate ==
  [][\A k \in CallIds :
       (Busy(k) /\ calls[k].kind \in {"create", "cancel", "loadMine"} /\ ReturnStep(k))
         => LET c == calls[k].client
                before == BookingIds(bookings[c])
                after == BookingIds(bookings'[c])
            IN  /\ \A id \in before :
                     (IsConfirmed(id) /\ events[id].owner = calls[k].uid) => id \in after
                /\ calls[k].kind # "loadMine"
                     => \A id \in after \ before : events[id].status # "canceled"]_vars

\* C24: when the last availability fetch or confirmation a Schedule page has
\* in flight returns, and it was started for a date other than the one now
\* selected, it leaves the page's bookedSlots map as it is: the map shown
\* once everything has completed is not one of an earlier date.
\* the courts a map marks as booked, label by label
Courts(m) == [l \in DOMAIN m |-> m[l].courts]

OfPage(k, c) == Busy(k) /\ calls[k].client = c /\ calls[k].page.via = "page"

C24_StaleResponseKeepsMap ==
  [][\A k \in CallIds : \A c \in Clients :
       ( /\ OfPage(k, c)
         /\ ReturnStep(k)
         /\ LocalDay(calls[k].page.date, tz) # LocalDay(date[c], tz)
         /\ \A j \in CallIds \ {k} : ~OfPage(j, c) )
         => Courts(bookedSlots'[c]) = Courts(bookedSlots[c])]_vars

\* C25: handleConfirm sends no createBooking request for a court that the
\* page's bookedSlots map marks as booked at the selected slot, nor for a
\* slot the map marks as fully booked.
ConfirmStep(c) ==
  \E k \in CallIds :
    /\ ~Busy(k)
    /\ calls'[k].kind = "create"
    /\ calls'[k].client = c
    /\ calls'[k].page.via = "page"

C25_NoConfirmOfBookedCourt ==
  [][\A c \in Clients :
       ConfirmStep(c) => /\ selectedCourt[c] \notin getDisabledCourts(c)
                         /\ selectedSlot[c] \notin getDisabledSlots(c)]_vars

\* C26: a Schedule page never has two createBooking requests in flight at
\* once for one selection (date, time slot, court).
InFlightFor(k, c) ==
  /\ OfPage(k, c)
  /\ calls[k].kind = "create"

C26_OneCreateInFlight ==
  \A c \in Clients : \A j, k \in CallIds :
    (InFlightFor(j, c) /\ InFlightFor(k, c) /\ calls[j].data = calls[k].data) => j = k

\* C27: the bookings list of a session holds only bookings of its logged-in
\* user: while the same user stays logged in and the list holds none of
\* another user, no step brings a booking of another user into it.
Foreign(list, p) == {id \in BookingIds(list) : events[id].owner # p}

C27_OnlyOwnBookingsListed ==
  [][\A c \in Clients :
       (user[c] # NoUser /\ user'[c] = user[c] /\ Foreign(bookings[c], user[c]) = {})
         => Foreign(bookings[c], user[c])' = {}]_vars

\* C28: the slot encoding round-trips: for each of the 16 slot labels, each
\* selectable date and each zone offset, the event that starts at
\* toStartISO(date, label) is counted, when availability is built for that
\* date, under that label; and the 16 labels are the 16 hours 6..21.
C28_SlotRoundTrip ==
  /\ {getHourFromSlot(l) : l \in EnumeratedSlots} = 6..21
  /\ Cardinality(EnumeratedSlots) = 16
  /\ \A c \in Clients :
       (last.kind = "fetch" /\ last.client = c)
         => ShownBooked(bookedSlots[c], selectedSlot[c]) = {selectedCourt[c]}

\* C29: while a session has no user (or a user without id), createBooking and
\* cancelBooking fail with 'Must be logged in' and loadMine returns, each
\* without sending a request and without touching the bookings list.
Starts(c) == \E k \in CallIds : ~Busy(k) /\ calls'[k].kind # "idle" /\ calls'[k].client = c

RefusedStep(c) == last'.kind # "none" /\ last'.client = c /\ last'.uid = NoUser

C29_MustBeLoggedIn ==
  [][\A c \in Clients :
       user[c] = NoUser
         => /\ ~Starts(c)
            /\ RefusedStep(c)
                 => /\ calls' = calls
                    /\ events' = events
                    /\ bookings' = bookings
                    /\ last'.kind \in {"create", "cancel"} => last'.result = "MustBeLoggedIn"
                    /\ last'.kind = "loadMine" => last'.result = "ok"]_vars

C29_Witness ==
  /\ last.kind = "create"
  /\ last.result = "MustBeLoggedIn"
  /\ user[last.client] = NoUser
  /\ \A k \in CallIds : ~Busy(k)

\* C30: for fixed skillLevel, yearsPlayed and hasCompExperience the rating
\* does not decrease when the external rating is raised: over 1.00..16.50 in
\* hundredths, the rating of the next hundredth is never lower.
NextHundredth(in) == [in EXCEPT !.utr = @ + 1]

C30_MonotoneInUtr ==
  (rating # NotRated /\ inputs.utr # NoUtr /\ inputs.utr < UTR_MAX)
    => rating <= calculateBuilt(build, NextHundredth(inputs))

====
